---- MODULE Spec2Model ----
(***************************************************************************)
(* SkillPath Navigator: the recommendation engine of ml/src/recommend.py,  *)
(* the ML service of ml/src/ml_service.py in front of it, and the routes   *)
(* of the backend that call the service or write to the database           *)
(* (backend/app/routes/ml.py, users.py, courses.py).                       *)
(*                                                                         *)
(* The engine holds a course catalog (courses_df) with a parallel table of *)
(* embeddings (course_embeddings).  generate_learning_path builds a greedy *)
(* prerequisite-aware path, content_based_recommendations ranks the        *)
(* catalog against a learner embedding.  Both are modelled loop iteration  *)
(* by loop iteration.                                                      *)
(*                                                                         *)
(* Similarities are exact rationals with denominator SimScale: every       *)
(* embedding of the model has the same integer Euclidean norm, so that     *)
(* cos(u, v) = Dot(u, v) / norm^2 = Dot(u, v) / SimScale.                  *)
(***************************************************************************)
EXTENDS Integers, Sequences, FiniteSets, TLC

\* ------------------------------------------------------------------ bounds

\* number of distinct courses the catalogs are drawn from
PoolSize == 6
\* longest catalog of a path-building run
MaxCatalog == 6
\* longest catalog of a ranking run
MaxRankCatalog == 4
\* longest catalog of a path-building run whose career goal varies
MaxGoalCatalog == 4
\* longest catalog of an engine that serves two calls at once
MaxSharedCatalog == 2
\* number of registration requests in flight
MaxRegistrations == 3
\* number of progress requests in flight
MaxProgressRequests == 2
\* longest catalog of the ML service behind the backend
MaxServiceCatalog == 2
\* the ids a row of the backend's courses table can have are 1..DbIds
DbIds == 3

\* ------------------------------------------------------------- helpers

Range(s) == {s[i] : i \in 1..Len(s)}

Min(a, b) == IF a <= b THEN a ELSE b

RECURSIVE SumWeeks(_)
SumWeeks(nodes) ==
    IF nodes = <<>> THEN 0
    ELSE nodes[1].estimated_completion_weeks + SumWeeks(Tail(nodes))

\* s[:n] of a Python list
Prefix(s, n) == SubSeq(s, 1, Min(n, Len(s)))

\* s[::-1]
Reverse(s) == [i \in 1..Len(s) |-> s[Len(s) + 1 - i]]

\* ------------------------------------------------------------- the data

\* the rows a catalog is drawn from; skills_covered and prerequisites are
\* lists, as in the data frame
CourseDef(i) ==
    CASE i = 1 -> [id |-> 1, prerequisites |-> <<>>, skills_covered |-> <<"A">>,
                   duration_hours |-> 40, nsqf_level |-> 3, sector |-> "IT"]
      [] i = 2 -> [id |-> 2, prerequisites |-> <<"A">>, skills_covered |-> <<"B">>,
                   duration_hours |-> 20, nsqf_level |-> 4, sector |-> "IT"]
      [] i = 3 -> [id |-> 3, prerequisites |-> <<"B">>,
                   skills_covered |-> <<"C", "A", "B", "E">>,
                   duration_hours |-> 5, nsqf_level |-> 5, sector |-> "Health"]
      [] i = 4 -> [id |-> 4, prerequisites |-> <<>>, skills_covered |-> <<>>,
                   duration_hours |-> 25, nsqf_level |-> 7, sector |-> "Health"]
      [] i = 5 -> [id |-> 5, prerequisites |-> <<"D">>, skills_covered |-> <<"A">>,
                   duration_hours |-> 30, nsqf_level |-> 5, sector |-> "IT"]
      [] i = 6 -> [id |-> 6, prerequisites |-> <<"A", "B">>, skills_covered |-> <<"D">>,
                   duration_hours |-> 60, nsqf_level |-> 6, sector |-> "Finance"]
      [] OTHER -> [id |-> i, prerequisites |-> <<>>, skills_covered |-> <<"E">>,
                   duration_hours |-> 10 * i, nsqf_level |-> 2, sector |-> "IT"]

\* the embedding of each row; all of norm 5
EmbeddingDef(i) ==
    CASE i = 1 -> <<5, 0>>
      [] i = 2 -> <<3, 4>>
      [] i = 3 -> <<4, 3>>
      [] i = 4 -> <<-3, 4>>
      [] i = 5 -> <<0, 5>>
      [] i = 6 -> <<-5, 0>>
      [] OTHER -> <<0, -5>>

\* sequences of distinct pool rows, of length at most m: a catalog in its
\* iteration order
RowOrders(m) ==
    UNION { {s \in [1..k -> 1..PoolSize] :
                \A a, b \in 1..k : a # b => s[a] # s[b]} : k \in 0..Min(m, PoolSize) }

LearnerSkillSets == { <<>>, <<"D">> }

\* career_goal is a required str of the caller's choosing
CareerGoals == { "Data Scientist", "Web Developer" }

\* target_nsqf_level is Optional[str]; "" stands for None (both are falsy)
TargetLevels == { "", "4", "6" }

\* the step limit the caller asks for; 0 stands for none supplied
RequestedMaxSteps == { 0, 3 }

LearnerEmbeddings == { <<3, 4>>, <<0, 5>>, <<-4, -3>>, <<-3, 4>> }

TopKs == { 1, 2 }

\* filters.get("nsqf_level") and filters.get("sector"): 0 and "" stand for
\* an absent key (None), which the code cannot tell from a falsy value;
\* 11 is no NSQF level
FilterLevels == { 0, 5, 11 }
FilterSectors == { "", "IT" }

\* ------------------------------------------------------------- the state

VARIABLES
    \* RecommendationEngine
    loaded,              \* FALSE: courses_df and course_embeddings are None
    courses_df,          \* the catalog rows, in iteration order; index labels 1..N
    course_embeddings,   \* the embedding of each row, in the same order
    \* one call of generate_learning_path
    pc,                  \* "off", "idle", "loop", "done"
    prior_skills,        \* learner_data["prior_skills"]
    career_goal,         \* the career_goal argument
    target_nsqf_level,   \* the target_nsqf_level argument
    max_steps,           \* the step limit the caller asked for (the code takes none)
    current_skills,
    available_courses,   \* index labels of the rows still available, in order
    loop_n,              \* the length of range(min(5, len(available_courses)))
    loop_i,              \* iterations of the for loop started so far
    path_nodes,
    sequence_order,
    total_weeks,
    path_result,         \* the returned dict, once pc = "done"
    \* one call of content_based_recommendations
    rpc,                 \* "off", "idle", "scan", "done"
    learner_embedding,
    top_k,
    filters,
    similarities,
    top_indices,
    scan_pos,            \* position in top_indices of the next idx of the for loop
    recommendations,
    \* one call of compute_learner_profile_embedding
    epc,                 \* "off", "idle", "done"
    learner_data,        \* the profile; a string is the sequence of its tokens
    profile_text,
    \* one request to the backend's POST /api/ml/recommendations
    bpc,                 \* "off", "start", "calling", "done"
    req_top_k,           \* the top_k query parameter
    include_explanations,
    db_courses,          \* the rows of the courses table
    ml_attempts,         \* client.post calls made for the request
    call_outcome,        \* "none", "ok", "connect_error", "timeout", "error_status"
    mpc,                 \* the ML service: "off", "idle", "running", "responded"
    ml_response,         \* the ML service's HTTP response
    response,            \* the backend's response, once bpc = "done"
    \* the backend's database and the requests that write to it
    users,               \* the rows of the users table, in insertion order
    reg_requests,        \* the POST /api/users/register requests in flight
    progress_records,    \* the rows of the progress_records table
    prog_requests        \* the POST /api/courses/progress requests in flight

engine_vars == <<loaded, courses_df, course_embeddings>>

path_vars == <<pc, prior_skills, career_goal, target_nsqf_level, max_steps, current_skills,
               available_courses, loop_n, loop_i, path_nodes, sequence_order,
               total_weeks, path_result>>

rank_vars == <<rpc, learner_embedding, top_k, filters, similarities, top_indices,
               scan_pos, recommendations>>

embed_vars == <<epc, learner_data, profile_text>>

service_vars == <<bpc, req_top_k, include_explanations, db_courses, ml_attempts,
                  call_outcome, mpc, ml_response, response>>

store_vars == <<users, reg_requests, progress_records, prog_requests>>

vars == <<loaded, courses_df, course_embeddings,
          pc, prior_skills, career_goal, target_nsqf_level, max_steps, current_skills,
          available_courses, loop_n, loop_i, path_nodes, sequence_order,
          total_weeks, path_result,
          rpc, learner_embedding, top_k, filters, similarities, top_indices,
          scan_pos, recommendations,
          epc, learner_data, profile_text,
          bpc, req_top_k, include_explanations, db_courses, ml_attempts,
          call_outcome, mpc, ml_response, response,
          users, reg_requests, progress_records, prog_requests>>

\* ---------------------------------------------- generate_learning_path

\* the literal 5 of range(min(5, len(available_courses)))
LoopCap == 5

\* the literal "5" of target_nsqf_level or "5"
DefaultTargetLevel == "5"

LevelStrings == <<"1", "2", "3", "4", "5", "6", "7", "8", "9", "10">>

\* int(target_nsqf_level) on the decimal strings of the levels
IntOf(s) == CHOOSE n \in 1..Len(LevelStrings) : LevelStrings[n] = s

\* target_nsqf_level or "5"
TargetOrDefault(target) == IF target # "" THEN target ELSE DefaultTargetLevel

FilterByTargetStrict(df, target) ==
    LET all == [i \in 1..Len(df) |-> i]
        Keep(i) == df[i].nsqf_level < IntOf(target)
    IN  IF target # "" THEN SelectSeq(all, Keep) ELSE all

FilterByTargetNone(df, target) == [i \in 1..Len(df) |-> i]

\* available_courses[available_courses["nsqf_level"] <= int(target_nsqf_level)],
\* applied when target_nsqf_level is truthy; the rows keep their index labels
FilterByTarget(df, target) ==
    LET all == [i \in 1..Len(df) |-> i]
        Keep(i) == df[i].nsqf_level <= IntOf(target)
    IN  IF target # "" THEN SelectSeq(all, Keep) ELSE all

LoopLengthShort(avail) == Min(LoopCap - 1, Len(avail))

\* len(range(min(5, len(available_courses))))
LoopLength(avail) == Min(LoopCap, Len(avail))

IsEligibleAlways(course, skills) == TRUE

\* prerequisites.issubset(current_skills)
IsEligible(course, skills) == Range(course.prerequisites) \subseteq skills

EligibleCoursesUnranked(df, avail, skills) ==
    LET Test(idx) ==
            /\ IsEligible(df[idx], skills)
            /\ \A r \in 1..Len(recommendations) :
                  recommendations[r].course_id # df[idx].id
    IN  SelectSeq(avail, Test)

\* the inner for loop: the index labels of the eligible rows, in iteration order
EligibleCourses(df, avail, skills) ==
    LET Test(idx) == IsEligible(df[idx], skills)
    IN  SelectSeq(avail, Test)

BestLast(eligible) == eligible[Len(eligible)]

BestForGoal(eligible) ==
    IF career_goal = "Web Developer" THEN eligible[Len(eligible)] ELSE eligible[1]

\* best_idx, best_course = eligible_courses[0]
Best(eligible) == eligible[1]

DurationWeeksCeil(course) == (course.duration_hours + 9) \div 10

\* best_course.get("duration_hours", 40) // 10
DurationWeeks(course) == course.duration_hours \div 10

DropNone(avail, idx) == avail

DropThrough(avail, idx) ==
    LET Test(l) == l > idx
    IN  SelectSeq(avail, Test)

\* available_courses.drop(best_idx)
Drop(avail, idx) ==
    LET Test(l) == l # idx
    IN  SelectSeq(avail, Test)

AddWeeksHours(total, course) == total + course.duration_hours

\* total_weeks += duration_weeks
AddWeeks(total, course) == total + DurationWeeks(course)

PathNode(course, order) ==
    [course_id |-> course.id,
     sequence_order |-> order,
     estimated_completion_weeks |-> DurationWeeks(course),
     prerequisites_met |-> TRUE]

PathResult(nodes, weeks, target) ==
    [path_nodes |-> nodes,
     total_duration_weeks |-> weeks,
     target_nsqf_level |-> TargetOrDefault(target)]

NoPathResult == PathResult(<<>>, 0, "")

\* lines 136-143: courses_df is None, the empty path is returned at once
GLPReturnNoCatalog ==
    /\ pc = "idle"
    /\ ~loaded
    /\ current_skills' = Range(prior_skills)
    /\ path_result' = PathResult(<<>>, 0, target_nsqf_level)
    /\ pc' = "done"
    /\ UNCHANGED <<prior_skills, career_goal, target_nsqf_level, max_steps, available_courses,
                   loop_n, loop_i, path_nodes, sequence_order, total_weeks>>
    /\ UNCHANGED <<engine_vars, rank_vars, embed_vars, service_vars, store_vars>>

\* lines 136-156: the copy of the catalog, the level filter, the loop's range
GLPBegin ==
    /\ pc = "idle"
    /\ loaded
    /\ current_skills' = Range(prior_skills)
    /\ available_courses' = FilterByTarget(courses_df, target_nsqf_level)
    /\ path_nodes' = <<>>
    /\ sequence_order' = 1
    /\ total_weeks' = 0
    /\ loop_n' = LoopLength(available_courses')
    /\ loop_i' = 0
    /\ pc' = "loop"
    /\ UNCHANGED <<prior_skills, career_goal, target_nsqf_level, max_steps, path_result>>
    /\ UNCHANGED <<engine_vars, rank_vars, embed_vars, service_vars, store_vars>>

\* lines 156-181: one iteration that finds an eligible course and emits it
GLPIterate ==
    /\ pc = "loop"
    /\ loop_i < loop_n
    /\ LET eligible_courses == EligibleCourses(courses_df, available_courses,
                                               current_skills)
       IN  /\ eligible_courses # <<>>
           /\ LET best_idx == Best(eligible_courses)
                  best_course == courses_df[best_idx]
              IN  /\ path_nodes' = Append(path_nodes,
                                          PathNode(best_course, sequence_order))
                  /\ current_skills' =
                         current_skills \cup Range(best_course.skills_covered)
                  /\ available_courses' = Drop(available_courses, best_idx)
                  /\ sequence_order' = sequence_order + 1
                  /\ total_weeks' = AddWeeks(total_weeks, best_course)
    /\ loop_i' = loop_i + 1
    /\ UNCHANGED <<pc, prior_skills, career_goal, target_nsqf_level, max_steps, loop_n,
                   path_result>>
    /\ UNCHANGED <<engine_vars, rank_vars, embed_vars, service_vars, store_vars>>

\* lines 164-165 and 183-187: no eligible course, break and return
GLPBreak ==
    /\ pc = "loop"
    /\ loop_i < loop_n
    /\ EligibleCourses(courses_df, available_courses, current_skills) = <<>>
    /\ path_result' = PathResult(path_nodes, total_weeks, target_nsqf_level)
    /\ pc' = "done"
    /\ UNCHANGED <<prior_skills, career_goal, target_nsqf_level, max_steps, current_skills,
                   available_courses, loop_n, loop_i, path_nodes, sequence_order,
                   total_weeks>>
    /\ UNCHANGED <<engine_vars, rank_vars, embed_vars, service_vars, store_vars>>

\* lines 156 and 183-187: the range is exhausted, return
GLPReturn ==
    /\ pc = "loop"
    /\ loop_i = loop_n
    /\ path_result' = PathResult(path_nodes, total_weeks, target_nsqf_level)
    /\ pc' = "done"
    /\ UNCHANGED <<prior_skills, career_goal, target_nsqf_level, max_steps, current_skills,
                   available_courses, loop_n, loop_i, path_nodes, sequence_order,
                   total_weeks>>
    /\ UNCHANGED <<engine_vars, rank_vars, embed_vars, service_vars, store_vars>>

generate_learning_path ==
    \/ GLPReturnNoCatalog
    \/ GLPBegin
    \/ GLPIterate
    \/ GLPBreak
    \/ GLPReturn

\* the catalog of an engine: loaded from the artifact, or absent
EngineInit(maxlen) ==
    \/ /\ loaded = TRUE
       /\ \E rows \in RowOrders(maxlen) :
            /\ courses_df = [j \in 1..Len(rows) |-> CourseDef(rows[j])]
            /\ course_embeddings = [j \in 1..Len(rows) |-> EmbeddingDef(rows[j])]
    \/ /\ loaded = FALSE
       /\ courses_df = <<>>
       /\ course_embeddings = <<>>

\* the arguments of a call whose career_goal is one of goals
PathCall(goals) ==
    /\ pc = "idle"
    /\ prior_skills \in LearnerSkillSets
    /\ career_goal \in goals
    /\ target_nsqf_level \in TargetLevels
    /\ max_steps \in RequestedMaxSteps
    /\ current_skills = {}
    /\ available_courses = <<>>
    /\ loop_n = 0
    /\ loop_i = 0
    /\ path_nodes = <<>>
    /\ sequence_order = 1
    /\ total_weeks = 0
    /\ path_result = NoPathResult

PathIdle == PathCall({"Data Scientist"})

PathOff ==
    /\ pc = "off"
    /\ prior_skills = <<>>
    /\ career_goal = ""
    /\ target_nsqf_level = ""
    /\ max_steps = 0
    /\ current_skills = {}
    /\ available_courses = <<>>
    /\ loop_n = 0
    /\ loop_i = 0
    /\ path_nodes = <<>>
    /\ sequence_order = 1
    /\ total_weeks = 0
    /\ path_result = NoPathResult

RankOff ==
    /\ rpc = "off"
    /\ learner_embedding = <<0, 0>>
    /\ top_k = 1
    /\ filters = [nsqf_level |-> 0, sector |-> ""]
    /\ similarities = <<>>
    /\ top_indices = <<>>
    /\ scan_pos = 1
    /\ recommendations = <<>>

NoLearnerData ==
    [prior_skills |-> <<>>, career_aspirations |-> <<>>, interests |-> <<>>,
     education_level |-> <<>>, current_occupation |-> <<>>]

EmbedOff ==
    /\ epc = "off"
    /\ learner_data = NoLearnerData
    /\ profile_text = <<>>

\* no HTTP response yet
NoResponse == [status |-> 0, recommendations |-> <<>>, model_version |-> <<>>]

ServiceOff ==
    /\ bpc = "off"
    /\ req_top_k = 1
    /\ include_explanations = TRUE
    /\ db_courses = <<>>
    /\ ml_attempts = 0
    /\ call_outcome = "none"
    /\ mpc = "off"
    /\ ml_response = NoResponse
    /\ response = NoResponse

\* no request writes to the database
StoreOff ==
    /\ users = <<>>
    /\ reg_requests = <<>>
    /\ progress_records = <<>>
    /\ prog_requests = <<>>

\* one call of generate_learning_path on an engine
PathInit ==
    EngineInit(MaxCatalog) /\ PathIdle /\ RankOff /\ EmbedOff /\ ServiceOff
                           /\ StoreOff

PathNext == generate_learning_path

PathSpec == PathInit /\ [][PathNext]_vars

\* the call runs to its return: nothing suspends the synchronous loop
PathLive == PathSpec /\ WF_vars(PathNext)

\* one call of generate_learning_path for any of the career goals
GoalInit ==
    EngineInit(MaxGoalCatalog) /\ PathCall(CareerGoals) /\ RankOff /\ EmbedOff
                               /\ ServiceOff /\ StoreOff

GoalSpec == GoalInit /\ [][PathNext]_vars

\* --------------------------------------- content_based_recommendations

Dot(u, v) == u[1] * v[1] + u[2] * v[2]

\* the integer n with n * n = Dot(u, u)
Norm(u) == CHOOSE n \in 0..Dot(u, u) : n * n = Dot(u, u)

\* the denominator of a similarity: the score 1.0 is SimScale, the squared
\* norm of the embeddings
SimScale == Dot(EmbeddingDef(1), EmbeddingDef(1))

\* sklearn's cosine_similarity of two vectors, in units of 1 / SimScale
CosineSimilarity(u, v) == (SimScale * Dot(u, v)) \div (Norm(u) * Norm(v))

\* cosine_similarity([learner_embedding], self.course_embeddings)[0]
Similarities(u, embeddings) ==
    [i \in 1..Len(embeddings) |-> CosineSimilarity(u, embeddings[i])]

\* np.argsort(similarities): an index order that sorts the values ascending;
\* the default sort is not stable, so the order of equal values is any
ArgSorts(sims) ==
    { order \in [1..Len(sims) -> 1..Len(sims)] :
        /\ \A a, b \in 1..Len(sims) : a # b => order[a] # order[b]
        /\ \A a, b \in 1..Len(sims) : a < b => sims[order[a]] <= sims[order[b]] }

TopIndicesTopK(order, k) == Prefix(Reverse(order), k)

\* np.argsort(similarities)[::-1][:top_k * 2]
TopIndices(order, k) == Prefix(Reverse(order), k * 2)

PassesFiltersAny(course, f) == TRUE

\* lines 74-78: the row is not skipped by an active filter
PassesFilters(course, f) ==
    /\ ~(f.nsqf_level # 0 /\ course.nsqf_level # f.nsqf_level)
    /\ ~(f.sector # "" /\ course.sector # f.sector)

RECURSIVE JoinTokens(_, _)
\* sep.join(parts), a string being the sequence of its tokens
JoinTokens(parts, sep) ==
    IF parts = <<>> THEN <<>>
    ELSE IF Len(parts) = 1 THEN <<parts[1]>>
    ELSE <<parts[1], sep>> \o JoinTokens(Tail(parts), sep)

GenerateExplanationInclusive(course, score) ==
    LET tier == IF score * 10 >= 8 * SimScale
                    THEN <<"Highly aligned with your profile">>
                ELSE IF score * 10 >= 6 * SimScale
                    THEN <<"Good match for your skills and interests">>
                ELSE <<"Relevant to your career goals">>
        skills == Prefix(course.skills_covered, 3)
    IN  IF skills # <<>>
            THEN tier \o <<". ", "Covers: ">> \o JoinTokens(skills, ", ")
            ELSE tier

\* _generate_explanation(course, score)
GenerateExplanation(course, score) ==
    LET tier == IF score * 10 > 8 * SimScale
                    THEN <<"Highly aligned with your profile">>
                ELSE IF score * 10 > 6 * SimScale
                    THEN <<"Good match for your skills and interests">>
                ELSE <<"Relevant to your career goals">>
        skills == Prefix(course.skills_covered, 3)
        covers == IF skills # <<>>
                    THEN << <<"Covers: ">> \o JoinTokens(skills, ", ") >>
                    ELSE <<>>
        reasons == <<tier>> \o covers
    IN  IF Len(reasons) = 1 THEN reasons[1]
        ELSE reasons[1] \o <<". ">> \o reasons[2]

\* lines 80-84
Recommendation(course, score) ==
    [course_id |-> course.id,
     relevance_score |-> score,
     explanation |-> GenerateExplanation(course, score)]

\* lines 60-61: no catalog or no embeddings, the empty list
CBRReturnNone ==
    /\ rpc = "idle"
    /\ ~loaded
    /\ recommendations' = <<>>
    /\ rpc' = "done"
    /\ UNCHANGED <<learner_embedding, top_k, filters, similarities, top_indices,
                   scan_pos>>
    /\ UNCHANGED <<engine_vars, path_vars, embed_vars, service_vars, store_vars>>

\* line 63: cosine_similarity rejects an embedding table of no rows
\* (ValueError), and the call raises
CBRRaise ==
    /\ rpc = "idle"
    /\ loaded
    /\ Len(course_embeddings) = 0
    /\ rpc' = "raised"
    /\ UNCHANGED <<learner_embedding, top_k, filters, similarities, top_indices,
                   scan_pos, recommendations>>
    /\ UNCHANGED <<engine_vars, path_vars, embed_vars, service_vars, store_vars>>

\* lines 63-67: the similarities and the candidates to scan
CBRBegin ==
    /\ rpc = "idle"
    /\ loaded
    /\ Len(course_embeddings) > 0
    /\ similarities' = Similarities(learner_embedding, course_embeddings)
    /\ \E order \in ArgSorts(similarities') :
          top_indices' = TopIndices(order, top_k)
    /\ recommendations' = <<>>
    /\ scan_pos' = 1
    /\ rpc' = "scan"
    /\ UNCHANGED <<learner_embedding, top_k, filters>>
    /\ UNCHANGED <<engine_vars, path_vars, embed_vars, service_vars, store_vars>>

\* lines 69-70: top_k recommendations are collected, break and return
CBRBreak ==
    /\ rpc = "scan"
    /\ scan_pos <= Len(top_indices)
    /\ Len(recommendations) >= top_k
    /\ rpc' = "done"
    /\ UNCHANGED <<learner_embedding, top_k, filters, similarities, top_indices,
                   scan_pos, recommendations>>
    /\ UNCHANGED <<engine_vars, path_vars, embed_vars, service_vars, store_vars>>

\* lines 72-78: the row is excluded by a filter, continue
CBRSkip ==
    /\ rpc = "scan"
    /\ scan_pos <= Len(top_indices)
    /\ Len(recommendations) < top_k
    /\ ~PassesFilters(courses_df[top_indices[scan_pos]], filters)
    /\ scan_pos' = scan_pos + 1
    /\ UNCHANGED <<rpc, learner_embedding, top_k, filters, similarities,
                   top_indices, recommendations>>
    /\ UNCHANGED <<engine_vars, path_vars, embed_vars, service_vars, store_vars>>

\* lines 72-84: the row is appended to the recommendations
CBRAppend ==
    /\ rpc = "scan"
    /\ scan_pos <= Len(top_indices)
    /\ Len(recommendations) < top_k
    /\ LET idx == top_indices[scan_pos]
       IN  /\ PassesFilters(courses_df[idx], filters)
           /\ recommendations' =
                 Append(recommendations,
                        Recommendation(courses_df[idx], similarities[idx]))
    /\ scan_pos' = scan_pos + 1
    /\ UNCHANGED <<rpc, learner_embedding, top_k, filters, similarities,
                   top_indices>>
    /\ UNCHANGED <<engine_vars, path_vars, embed_vars, service_vars, store_vars>>

\* lines 68 and 86: the candidates are exhausted, return
CBRReturn ==
    /\ rpc = "scan"
    /\ scan_pos > Len(top_indices)
    /\ rpc' = "done"
    /\ UNCHANGED <<learner_embedding, top_k, filters, similarities, top_indices,
                   scan_pos, recommendations>>
    /\ UNCHANGED <<engine_vars, path_vars, embed_vars, service_vars, store_vars>>

content_based_recommendations ==
    \/ CBRReturnNone
    \/ CBRRaise
    \/ CBRBegin
    \/ CBRBreak
    \/ CBRSkip
    \/ CBRAppend
    \/ CBRReturn

RankIdle ==
    /\ rpc = "idle"
    /\ learner_embedding \in LearnerEmbeddings
    /\ top_k \in TopKs
    /\ filters \in [nsqf_level : FilterLevels, sector : FilterSectors]
    /\ similarities = <<>>
    /\ top_indices = <<>>
    /\ scan_pos = 1
    /\ recommendations = <<>>

\* one call of content_based_recommendations on an engine
RankInit ==
    EngineInit(MaxRankCatalog) /\ PathOff /\ RankIdle /\ EmbedOff /\ ServiceOff
                               /\ StoreOff

RankNext == content_based_recommendations

RankSpec == RankInit /\ [][RankNext]_vars

\* ---------------------- two calls at once on the engine of ml_service.py

\* recommend, lines 115-118: content_based_recommendations without filters
NoFilters == [nsqf_level |-> 0, sector |-> ""]

\* the module-level recommendation_engine serves a /recommend and a
\* /learning-path request whose loops interleave in any order
SharedInit ==
    /\ EngineInit(MaxSharedCatalog)
    /\ PathIdle
    /\ max_steps = 0
    /\ RankIdle
    /\ filters = NoFilters
    /\ EmbedOff
    /\ ServiceOff
    /\ StoreOff

SharedNext ==
    \/ GLPReturnNoCatalog
    \/ GLPBegin
    \/ GLPIterate
    \/ GLPBreak
    \/ GLPReturn
    \/ CBRReturnNone
    \/ CBRRaise
    \/ CBRBegin
    \/ CBRBreak
    \/ CBRAppend
    \/ CBRReturn

SharedSpec == SharedInit /\ [][SharedNext]_vars

\* ------------------------------- compute_learner_profile_embedding

RECURSIVE JoinStrings(_, _)
\* sep.join(parts) for strings that are token sequences; "" is <<>>
JoinStrings(parts, sep) ==
    IF parts = <<>> THEN <<>>
    ELSE IF Len(parts) = 1 THEN parts[1]
    ELSE parts[1] \o sep \o JoinStrings(Tail(parts), sep)

\* the five strings that are joined: the three lists joined by " ", then
\* education_level and current_occupation ("" when the key is missing)
ProfileParts(ld) ==
    << JoinTokens(ld.prior_skills, " "),
       JoinTokens(ld.career_aspirations, " "),
       JoinTokens(ld.interests, " "),
       ld.education_level,
       ld.current_occupation >>

\* lines 43-49: profile_text
ProfileText(ld) == JoinStrings(ProfileParts(ld), <<" ">>)

\* lines 43-49: the text handed to embedding_model.encode
ComputeProfileText ==
    /\ epc = "idle"
    /\ profile_text' = ProfileText(learner_data)
    /\ epc' = "done"
    /\ UNCHANGED learner_data
    /\ UNCHANGED <<engine_vars, path_vars, rank_vars, service_vars, store_vars>>

SkillLists == { <<>>, <<"Python">>, <<"Python", "SQL">> }
AspirationLists == { <<>>, <<"Data Scientist">> }
InterestLists == { <<>>, <<"AI">>, <<"AI", "ML">> }
EducationLevels == { <<>>, <<"graduate">> }
Occupations == { <<>>, <<"Student">> }

EmbedIdle ==
    /\ epc = "idle"
    /\ learner_data \in [prior_skills : SkillLists,
                          career_aspirations : AspirationLists,
                          interests : InterestLists,
                          education_level : EducationLevels,
                          current_occupation : Occupations]
    /\ profile_text = <<>>

EmbedInit ==
    /\ loaded = FALSE /\ courses_df = <<>> /\ course_embeddings = <<>>
    /\ PathOff /\ RankOff /\ EmbedIdle /\ ServiceOff /\ StoreOff

EmbedNext == ComputeProfileText

EmbedSpec == EmbedInit /\ [][EmbedNext]_vars

\* ------------------------------------ one call of any engine operation

\* a call of generate_learning_path, of content_based_recommendations or of
\* compute_learner_profile_embedding
CallInit ==
    \/ GoalInit
    \/ /\ EngineInit(MaxSharedCatalog)
       /\ PathOff /\ RankIdle /\ EmbedOff /\ ServiceOff /\ StoreOff
    \/ EmbedInit

CallNext ==
    \/ PathNext
    \/ RankNext
    \/ EmbedNext

CallSpec == CallInit /\ [][CallNext]_vars

\* ------------------------- POST /api/ml/recommendations and its ML service

\* recommend, lines 120-122: rec.pop("explanation", None)
PopExplanationKeep(rec) == rec

PopExplanation(rec) ==
    [course_id |-> rec.course_id, relevance_score |-> rec.relevance_score]

\* recommend, lines 115-127: the dict the ML service returns with status 200
RecommendResult(recs, incl) ==
    [status |-> 200,
     recommendations |-> IF incl THEN recs
                         ELSE [i \in 1..Len(recs) |-> PopExplanation(recs[i])],
     model_version |-> <<"1.0.0">>]

\* ml_service.py, lines 69-70: HTTPException(status_code=500)
ServiceError == [status |-> 500, recommendations |-> <<>>, model_version |-> <<>>]

\* the rows with CourseDB.id.in_(course_ids) as a lookup: the row of an id
HasCourse(db, id) == \E r \in 1..Len(db) : db[r].id = id

\* rec.get("explanation") if include_explanations else None; None is {} and
\* a string s is {s}
ExplanationOrNone(rec, incl) ==
    IF incl /\ "explanation" \in DOMAIN rec THEN {rec.explanation} ELSE {}

\* lines 100-110: the RecommendationItem of a recommendation of the ML service
RankedItem(rec, incl) ==
    [course_id |-> rec.course_id,
     relevance_score |-> [num |-> rec.relevance_score, den |-> SimScale],
     explanation |-> ExplanationOrNone(rec, incl)]

\* models.py line 140: relevance_score: float = Field(..., ge=0.0, le=1.0)
ValidScore(score) == 0 <= score.num /\ score.num <= score.den

\* lines 92-111: the items of the recommendations whose course is in the table
RankedItems(body, db, incl) ==
    LET Known(rec) == HasCourse(db, rec.course_id)
        recs == SelectSeq(body.recommendations, Known)
    IN  [i \in 1..Len(recs) |-> RankedItem(recs[i], incl)]

FallbackCoursesAll(db, k) == Prefix(db, k)

\* line 68: filter(CourseDB.is_active == True).limit(top_k).all()
FallbackCourses(db, k) ==
    LET Active(row) == row.is_active
    IN  Prefix(SelectSeq(db, Active), k)

\* lines 70-90: the response of the except branch
FallbackResponse(db, k, incl) ==
    LET courses == FallbackCourses(db, k)
    IN  [status |-> 200,
         recommendations |->
            [i \in 1..Len(courses) |->
                [course_id |-> courses[i].id,
                 relevance_score |-> [num |-> 3, den |-> 4],
                 explanation |->
                    IF incl THEN {<<"Recommended based on your profile">>}
                    ELSE {}]],
         model_version |-> <<"1.0.0", "-fallback">>]

\* lines 50-64: the one client.post of the request
BackendCall ==
    /\ bpc = "start"
    /\ ml_attempts' = ml_attempts + 1
    /\ bpc' = "calling"
    /\ UNCHANGED <<req_top_k, include_explanations, db_courses, call_outcome,
                   mpc, ml_response, response>>
    /\ UNCHANGED <<engine_vars, path_vars, rank_vars, embed_vars, store_vars>>

\* lines 67-90: the post fails to connect or runs into timeout=30.0
\* (httpx.ConnectError, httpx.TimeoutException), the fallback answers
BackendFallbackOnTransportError ==
    /\ bpc = "calling"
    /\ \E cause \in {"connect_error", "timeout"} :
          /\ cause = "connect_error" => mpc = "idle"
          /\ call_outcome' = cause
    /\ response' = FallbackResponse(db_courses, req_top_k, include_explanations)
    /\ bpc' = "done"
    /\ UNCHANGED <<req_top_k, include_explanations, db_courses, ml_attempts,
                   mpc, ml_response>>
    /\ UNCHANGED <<engine_vars, path_vars, rank_vars, embed_vars, store_vars>>

\* ml_service.py lines 50-65 and recommend lines 113-118: the ML service takes
\* the request, embeds the profile and calls content_based_recommendations
\* with top_k and without filters
MLReceive ==
    /\ bpc = "calling"
    /\ mpc = "idle"
    /\ rpc = "off"
    /\ learner_embedding' \in LearnerEmbeddings
    /\ top_k' = req_top_k
    /\ rpc' = "idle"
    /\ mpc' = "running"
    /\ UNCHANGED <<filters, similarities, top_indices, scan_pos, recommendations>>
    /\ UNCHANGED <<bpc, req_top_k, include_explanations, db_courses, ml_attempts,
                   call_outcome, ml_response, response>>
    /\ UNCHANGED <<engine_vars, path_vars, embed_vars, store_vars>>

\* recommend lines 120-127 and ml_service.py line 67: the result is returned
MLRespond ==
    /\ mpc = "running"
    /\ rpc = "done"
    /\ ml_response' = RecommendResult(recommendations, include_explanations)
    /\ mpc' = "responded"
    /\ UNCHANGED <<bpc, req_top_k, include_explanations, db_courses, ml_attempts,
                   call_outcome, response>>
    /\ UNCHANGED <<engine_vars, path_vars, rank_vars, embed_vars, store_vars>>

\* ml_service.py lines 69-70: the engine raised, the service answers 500
MLRespondError ==
    /\ mpc = "running"
    /\ rpc = "raised"
    /\ ml_response' = ServiceError
    /\ mpc' = "responded"
    /\ UNCHANGED <<bpc, req_top_k, include_explanations, db_courses, ml_attempts,
                   call_outcome, response>>
    /\ UNCHANGED <<engine_vars, path_vars, rank_vars, embed_vars, store_vars>>

\* lines 65 and 67-90: raise_for_status raises httpx.HTTPStatusError, the
\* fallback answers
BackendFallbackOnErrorStatus ==
    /\ bpc = "calling"
    /\ mpc = "responded"
    /\ ml_response.status # 200
    /\ call_outcome' = "error_status"
    /\ response' = FallbackResponse(db_courses, req_top_k, include_explanations)
    /\ bpc' = "done"
    /\ UNCHANGED <<req_top_k, include_explanations, db_courses, ml_attempts,
                   mpc, ml_response>>
    /\ UNCHANGED <<engine_vars, path_vars, rank_vars, embed_vars, store_vars>>

\* lines 92-118: the response built from the ML service's recommendations
BackendRespond ==
    /\ bpc = "calling"
    /\ mpc = "responded"
    /\ ml_response.status = 200
    /\ LET items == RankedItems(ml_response, db_courses, include_explanations)
       IN  /\ \A i \in 1..Len(items) : ValidScore(items[i].relevance_score)
           /\ response' = [status |-> 200,
                           recommendations |-> items,
                           model_version |-> ml_response.model_version]
    /\ call_outcome' = "ok"
    /\ bpc' = "done"
    /\ UNCHANGED <<req_top_k, include_explanations, db_courses, ml_attempts,
                   mpc, ml_response>>
    /\ UNCHANGED <<engine_vars, path_vars, rank_vars, embed_vars, store_vars>>

\* lines 100-110 and main.py lines 75-85: a RecommendationItem rejects its
\* relevance_score (pydantic ValidationError), the request is answered 500
BackendValidationError ==
    /\ bpc = "calling"
    /\ mpc = "responded"
    /\ ml_response.status = 200
    /\ LET items == RankedItems(ml_response, db_courses, include_explanations)
       IN  \E i \in 1..Len(items) : ~ValidScore(items[i].relevance_score)
    /\ response' = ServiceError
    /\ call_outcome' = "ok"
    /\ bpc' = "done"
    /\ UNCHANGED <<req_top_k, include_explanations, db_courses, ml_attempts,
                   mpc, ml_response>>
    /\ UNCHANGED <<engine_vars, path_vars, rank_vars, embed_vars, store_vars>>

\* the courses table: each id of 1..DbIds is absent, active or inactive
DbTables ==
    { LET Present(i) == f[i] # "absent"
          ids == SelectSeq([i \in 1..DbIds |-> i], Present)
      IN  [r \in 1..Len(ids) |-> [id |-> ids[r], is_active |-> f[ids[r]] = "active"]]
      : f \in [1..DbIds -> {"absent", "active", "inactive"}] }

ServiceStart ==
    /\ bpc = "start"
    /\ req_top_k \in TopKs
    /\ include_explanations \in BOOLEAN
    /\ db_courses \in DbTables
    /\ ml_attempts = 0
    /\ call_outcome = "none"
    /\ mpc = "idle"
    /\ ml_response = NoResponse
    /\ response = NoResponse

\* one request of a user with a learner profile, the ML service being an
\* engine of its own
ServiceInit ==
    EngineInit(MaxServiceCatalog) /\ PathOff /\ RankOff /\ EmbedOff /\ ServiceStart
                                  /\ StoreOff

\* recommend passes no filters: no row is ever skipped
ServiceNext ==
    \/ BackendCall
    \/ BackendFallbackOnTransportError
    \/ MLReceive
    \/ CBRReturnNone
    \/ CBRRaise
    \/ CBRBegin
    \/ CBRBreak
    \/ CBRAppend
    \/ CBRReturn
    \/ MLRespond
    \/ MLRespondError
    \/ BackendFallbackOnErrorStatus
    \/ BackendRespond
    \/ BackendValidationError

ServiceSpec == ServiceInit /\ [][ServiceNext]_vars

\* ------------------------- GET /api/ml/learning-path and its ML service

\* no HTTP response yet
NoPathResponse ==
    [status |-> 0, path_nodes |-> <<>>, total_duration_weeks |-> 0,
     target_nsqf_level |-> ""]

\* ml.py line 162: filter(CourseDB.is_active == True).limit(5).all()
PathFallbackCourses(db) ==
    LET Active(row) == row.is_active
    IN  Prefix(SelectSeq(db, Active), 5)

\* ml.py lines 162-186: the response of the except branch
PathFallbackResponse(db, target) ==
    LET courses == PathFallbackCourses(db)
        nodes == [i \in 1..Len(courses) |->
                    [course_id |-> courses[i].id,
                     sequence_order |-> i,
                     estimated_completion_weeks |-> courses[i].duration_hours \div 10,
                     prerequisites_met |-> TRUE]]
    IN  [status |-> 200,
         path_nodes |-> nodes,
         total_duration_weeks |-> SumWeeks(nodes),
         target_nsqf_level |-> IF target # "" THEN target ELSE "5"]

\* ml.py lines 188-214: the response built from the ML service's path; a
\* node whose course has no row is left out
PathResponse(path_data, db) ==
    LET Known(node) == HasCourse(db, node.course_id)
    IN  [status |-> 200,
         path_nodes |-> SelectSeq(path_data.path_nodes, Known),
         total_duration_weeks |-> path_data.total_duration_weeks,
         target_nsqf_level |-> path_data.target_nsqf_level]

\* ml.py lines 146-158: the one client.post of the request
LPCall ==
    /\ bpc = "start"
    /\ ml_attempts' = ml_attempts + 1
    /\ bpc' = "calling"
    /\ UNCHANGED <<req_top_k, include_explanations, db_courses, call_outcome,
                   mpc, ml_response, response>>
    /\ UNCHANGED <<engine_vars, path_vars, rank_vars, embed_vars, store_vars>>

\* ml.py lines 161-186: the post fails to connect or runs into timeout=30.0,
\* the fallback answers
LPFallback ==
    /\ bpc = "calling"
    /\ \E cause \in {"connect_error", "timeout"} :
          /\ cause = "connect_error" => mpc = "idle"
          /\ call_outcome' = cause
    /\ response' = PathFallbackResponse(db_courses, target_nsqf_level)
    /\ bpc' = "done"
    /\ UNCHANGED <<req_top_k, include_explanations, db_courses, ml_attempts,
                   mpc, ml_response>>
    /\ UNCHANGED <<engine_vars, path_vars, rank_vars, embed_vars, store_vars>>

\* ml_service.py lines 73-87: the ML service takes the request and calls
\* generate_learning_path with the profile's skills, the goal and the target
MLPathReceive ==
    /\ bpc = "calling"
    /\ mpc = "idle"
    /\ pc = "off"
    /\ pc' = "idle"
    /\ mpc' = "running"
    /\ UNCHANGED <<prior_skills, career_goal, target_nsqf_level, max_steps,
                   current_skills, available_courses, loop_n, loop_i, path_nodes,
                   sequence_order, total_weeks, path_result>>
    /\ UNCHANGED <<bpc, req_top_k, include_explanations, db_courses, ml_attempts,
                   call_outcome, ml_response, response>>
    /\ UNCHANGED <<engine_vars, rank_vars, embed_vars, store_vars>>

\* ml_service.py line 89: the path is returned with status 200
MLPathRespond ==
    /\ mpc = "running"
    /\ pc = "done"
    /\ ml_response' = [status |-> 200,
                       path_nodes |-> path_result.path_nodes,
                       total_duration_weeks |-> path_result.total_duration_weeks,
                       target_nsqf_level |-> path_result.target_nsqf_level]
    /\ mpc' = "responded"
    /\ UNCHANGED <<bpc, req_top_k, include_explanations, db_courses, ml_attempts,
                   call_outcome, response>>
    /\ UNCHANGED <<engine_vars, path_vars, rank_vars, embed_vars, store_vars>>

\* ml.py lines 159-160 and 188-214: the response built from the ML path
LPRespond ==
    /\ bpc = "calling"
    /\ mpc = "responded"
    /\ response' = PathResponse(ml_response, db_courses)
    /\ call_outcome' = "ok"
    /\ bpc' = "done"
    /\ UNCHANGED <<req_top_k, include_explanations, db_courses, ml_attempts,
                   mpc, ml_response>>
    /\ UNCHANGED <<engine_vars, path_vars, rank_vars, embed_vars, store_vars>>

\* the courses table with the duration_hours column of each row
PathDbTables ==
    { [r \in 1..Len(table) |->
         [id |-> table[r].id,
          is_active |-> table[r].is_active,
          duration_hours |-> CourseDef(table[r].id).duration_hours]]
      : table \in DbTables }

\* one request of a user with a learner profile; the query's career_goal
\* and target_nsqf_level and the profile's prior_skills wait for the ML
\* service to pass them to the engine
LPInit ==
    /\ EngineInit(MaxServiceCatalog)
    /\ pc = "off"
    /\ prior_skills \in LearnerSkillSets
    /\ career_goal = "Data Scientist"
    /\ target_nsqf_level \in TargetLevels
    /\ max_steps = 0
    /\ current_skills = {}
    /\ available_courses = <<>>
    /\ loop_n = 0
    /\ loop_i = 0
    /\ path_nodes = <<>>
    /\ sequence_order = 1
    /\ total_weeks = 0
    /\ path_result = NoPathResult
    /\ RankOff
    /\ EmbedOff
    /\ bpc = "start"
    /\ req_top_k = 1
    /\ include_explanations = TRUE
    /\ db_courses \in PathDbTables
    /\ ml_attempts = 0
    /\ call_outcome = "none"
    /\ mpc = "idle"
    /\ ml_response = NoPathResponse
    /\ response = NoPathResponse
    /\ StoreOff

LPNext ==
    \/ LPCall
    \/ LPFallback
    \/ MLPathReceive
    \/ GLPReturnNoCatalog
    \/ GLPBegin
    \/ GLPIterate
    \/ GLPBreak
    \/ GLPReturn
    \/ MLPathRespond
    \/ LPRespond

LPSpec == LPInit /\ [][LPNext]_vars

\* ------------------------------------------- POST /api/users/register

Emails == { "a@example.com", "b@example.com" }

\* db.query(UserDB).filter(UserDB.email == user.email).first() is not None
EmailRegistered(table, email) == \E i \in 1..Len(table) : table[i].email = email

\* lines 23-28: the email has a row, 400 "Email already registered"
RegisterRejected ==
    \E r \in 1..Len(reg_requests) :
        /\ reg_requests[r].pc = "start"
        /\ EmailRegistered(users, reg_requests[r].email)
        /\ reg_requests' = [reg_requests EXCEPT ![r].pc = "done", ![r].status = 400]
        /\ UNCHANGED <<users, progress_records, prog_requests>>
        /\ UNCHANGED <<engine_vars, path_vars, rank_vars, embed_vars, service_vars>>

\* lines 23-38: the email has no row, the new user is added to the session
RegisterAdd ==
    \E r \in 1..Len(reg_requests) :
        /\ reg_requests[r].pc = "start"
        /\ ~EmailRegistered(users, reg_requests[r].email)
        /\ reg_requests' = [reg_requests EXCEPT ![r].pc = "added"]
        /\ UNCHANGED <<users, progress_records, prog_requests>>
        /\ UNCHANGED <<engine_vars, path_vars, rank_vars, embed_vars, service_vars>>

\* lines 39-50: the commit inserts the row, 201 with the new user
RegisterCommit ==
    \E r \in 1..Len(reg_requests) :
        /\ reg_requests[r].pc = "added"
        /\ ~EmailRegistered(users, reg_requests[r].email)
        /\ users' = Append(users, [id |-> Len(users) + 1,
                                   email |-> reg_requests[r].email])
        /\ reg_requests' = [reg_requests EXCEPT ![r].pc = "done", ![r].status = 201]
        /\ UNCHANGED <<progress_records, prog_requests>>
        /\ UNCHANGED <<engine_vars, path_vars, rank_vars, embed_vars, service_vars>>

\* line 39, db.py line 21 and main.py lines 75-85: the commit violates
\* unique=True of users.email (IntegrityError), which nothing catches but the
\* global handler, 500
RegisterIntegrityError ==
    \E r \in 1..Len(reg_requests) :
        /\ reg_requests[r].pc = "added"
        /\ EmailRegistered(users, reg_requests[r].email)
        /\ reg_requests' = [reg_requests EXCEPT ![r].pc = "done", ![r].status = 500]
        /\ UNCHANGED <<users, progress_records, prog_requests>>
        /\ UNCHANGED <<engine_vars, path_vars, rank_vars, embed_vars, service_vars>>

\* the users tables of the initial states: rows with distinct emails
UserTables ==
    { <<>>,
      << [id |-> 1, email |-> "a@example.com"] >>,
      << [id |-> 1, email |-> "b@example.com"] >>,
      << [id |-> 1, email |-> "a@example.com"],
         [id |-> 2, email |-> "b@example.com"] >> }

\* requests served by backend processes that share the database: the query
\* of one and the commit of another come in any order
RegisterInit ==
    /\ loaded = FALSE /\ courses_df = <<>> /\ course_embeddings = <<>>
    /\ PathOff /\ RankOff /\ EmbedOff /\ ServiceOff
    /\ users \in UserTables
    /\ reg_requests \in [1..MaxRegistrations ->
                            [email : Emails, pc : {"start"}, status : {0}]]
    /\ progress_records = <<>>
    /\ prog_requests = <<>>

RegisterNext ==
    \/ RegisterRejected
    \/ RegisterAdd
    \/ RegisterCommit
    \/ RegisterIntegrityError

RegisterSpec == RegisterInit /\ [][RegisterNext]_vars

\* ------------------------------------------- POST /api/courses/progress

\* the ids of the users behind the requests' tokens
LearnerIds == { 1, 2 }

\* the ids of the rows of the courses table
StoredCourseIds == { 1 }

\* progress.course_id of a request; 9 is the id of no course
RequestedCourseIds == { 1, 9 }

\* progress.completion_percentage of a request
Percentages == { 10, 50 }

\* lines 134-137: the positions of the rows of the pair
RecordsOfPair(table, learner, course) ==
    { i \in 1..Len(table) :
        table[i].learner_id = learner /\ table[i].course_id = course }

\* lines 127-132: the course has no row, 404 "Course not found"
ProgressCourseNotFound ==
    \E r \in 1..Len(prog_requests) :
        /\ prog_requests[r].pc = "start"
        /\ prog_requests[r].course_id \notin StoredCourseIds
        /\ prog_requests' = [prog_requests EXCEPT ![r].pc = "done", ![r].status = 404]
        /\ UNCHANGED <<users, reg_requests, progress_records>>
        /\ UNCHANGED <<engine_vars, path_vars, rank_vars, embed_vars, service_vars>>

\* lines 120-145: the pair has a row, which the session changes
ProgressFound ==
    \E r \in 1..Len(prog_requests) :
        /\ prog_requests[r].pc = "start"
        /\ prog_requests[r].course_id \in StoredCourseIds
        /\ \E i \in RecordsOfPair(progress_records, prog_requests[r].learner,
                                  prog_requests[r].course_id) :
              prog_requests' = [prog_requests EXCEPT ![r].pc = "found",
                                                     ![r].existing = i]
        /\ UNCHANGED <<users, reg_requests, progress_records>>
        /\ UNCHANGED <<engine_vars, path_vars, rank_vars, embed_vars, service_vars>>

\* lines 120-154: the pair has no row, a new one is added to the session
ProgressNew ==
    \E r \in 1..Len(prog_requests) :
        /\ prog_requests[r].pc = "start"
        /\ prog_requests[r].course_id \in StoredCourseIds
        /\ RecordsOfPair(progress_records, prog_requests[r].learner,
                         prog_requests[r].course_id) = {}
        /\ prog_requests' = [prog_requests EXCEPT ![r].pc = "new"]
        /\ UNCHANGED <<users, reg_requests, progress_records>>
        /\ UNCHANGED <<engine_vars, path_vars, rank_vars, embed_vars, service_vars>>

\* lines 140-145 and 159-167: the commit updates the row in place, 201
ProgressCommitUpdate ==
    \E r \in 1..Len(prog_requests) :
        /\ prog_requests[r].pc = "found"
        /\ progress_records' =
              [progress_records EXCEPT
                 ![prog_requests[r].existing].completion_percentage =
                     prog_requests[r].completion_percentage]
        /\ prog_requests' = [prog_requests EXCEPT ![r].pc = "done", ![r].status = 201]
        /\ UNCHANGED <<users, reg_requests>>
        /\ UNCHANGED <<engine_vars, path_vars, rank_vars, embed_vars, service_vars>>

\* lines 147-167 and db.py lines 73-85: the commit inserts the row, which no
\* constraint of the table forbids, 201
ProgressCommitInsert ==
    \E r \in 1..Len(prog_requests) :
        /\ prog_requests[r].pc = "new"
        /\ progress_records' =
              Append(progress_records,
                     [id |-> Len(progress_records) + 1,
                      learner_id |-> prog_requests[r].learner,
                      course_id |-> prog_requests[r].course_id,
                      completion_percentage |->
                          prog_requests[r].completion_percentage])
        /\ prog_requests' = [prog_requests EXCEPT ![r].pc = "done", ![r].status = 201]
        /\ UNCHANGED <<users, reg_requests>>
        /\ UNCHANGED <<engine_vars, path_vars, rank_vars, embed_vars, service_vars>>

\* the progress tables of the initial states: at most one row per pair
ProgressTables ==
    { <<>>,
      << [id |-> 1, learner_id |-> 1, course_id |-> 1,
          completion_percentage |-> 0] >> }

\* requests of existing users served by backend processes that share the
\* database: the queries of one and the commit of another come in any order
ProgressInit ==
    /\ loaded = FALSE /\ courses_df = <<>> /\ course_embeddings = <<>>
    /\ PathOff /\ RankOff /\ EmbedOff /\ ServiceOff
    /\ users = <<>>
    /\ reg_requests = <<>>
    /\ progress_records \in ProgressTables
    /\ prog_requests \in [1..MaxProgressRequests ->
                             [learner : LearnerIds,
                              course_id : RequestedCourseIds,
                              completion_percentage : Percentages,
                              pc : {"start"}, existing : {0}, status : {0}]]

ProgressNext ==
    \/ ProgressCourseNotFound
    \/ ProgressFound
    \/ ProgressNew
    \/ ProgressCommitUpdate
    \/ ProgressCommitInsert

ProgressSpec == ProgressInit /\ [][ProgressNext]_vars

\* ------------------------------------------- properties of the path builder

\* the catalog row of a course id
CourseWithId(id) == CHOOSE c \in Range(courses_df) : c.id = id

\* the catalog row a path node was built from
CourseOfNode(node) == CourseWithId(node.course_id)

\* the skills the learner holds strictly before step i of the path
SkillsBefore(nodes, i) ==
    Range(prior_skills) \cup
    UNION { Range(CourseOfNode(nodes[j]).skills_covered) : j \in 1..(i - 1) }

\* C1: every emitted node belongs to a course whose prerequisites are a subset
\* of the profile's skills united with the skills_covered of the courses
\* emitted at earlier steps.
C1_PrerequisitesAcquiredBefore ==
    \A i \in 1..Len(path_nodes) :
        Range(CourseOfNode(path_nodes[i]).prerequisites)
            \subseteq SkillsBefore(path_nodes, i)

\* a course with a prerequisite the profile lacks was emitted, after the
\* course that covers it
C1_Witness ==
    \E i \in 2..Len(path_nodes) :
        /\ CourseOfNode(path_nodes[i]).prerequisites # <<>>
        /\ ~(Range(CourseOfNode(path_nodes[i]).prerequisites)
                \subseteq Range(prior_skills))

UniqueIds(df) == \A a, b \in 1..Len(df) : a # b => df[a].id # df[b].id

\* C2: on a catalog with unique ids the path holds no course_id twice, and
\* the sequence_order values are 1, 2, ..., len(path) in path order.
C2_NoDuplicatesAndDenseOrder ==
    UniqueIds(courses_df) =>
        /\ \A i, j \in 1..Len(path_nodes) :
              i # j => path_nodes[i].course_id # path_nodes[j].course_id
        /\ \A i \in 1..Len(path_nodes) : path_nodes[i].sequence_order = i
        /\ pc = "done" => \A i \in 1..Len(path_result.path_nodes) :
              path_result.path_nodes[i].sequence_order = i

\* a returned path of at least three nodes
C2_Witness ==
    /\ pc = "done"
    /\ Len(path_result.path_nodes) >= 3

\* C7: a step taken while some remaining course is eligible emits the eligible
\* course that comes first in the iteration order of the remaining courses.
C7_FirstEligibleIsEmitted ==
    [][ LET Met(p) == Range(courses_df[available_courses[p]].prerequisites)
                          \subseteq current_skills
        IN  /\ (pc = "loop" /\ loop_i < loop_n
                  /\ \E p \in 1..Len(available_courses) : Met(p))
                 => Len(path_nodes') = Len(path_nodes) + 1
            /\ Len(path_nodes') = Len(path_nodes) + 1
                 => \E p \in 1..Len(available_courses) :
                       /\ Met(p)
                       /\ \A q \in 1..(p - 1) : ~Met(q)
                       /\ path_nodes'[Len(path_nodes')].course_id
                             = courses_df[available_courses[p]].id ]_vars

\* the first node is the second row of the catalog: the first row was not
\* eligible and the third row was eligible too
C7_Witness ==
    /\ target_nsqf_level = ""
    /\ Len(courses_df) >= 3
    /\ Len(path_nodes) >= 1
    /\ path_nodes[1].course_id = courses_df[2].id
    /\ ~(Range(courses_df[1].prerequisites) \subseteq Range(prior_skills))
    /\ Range(courses_df[3].prerequisites) \subseteq Range(prior_skills)

\* the limit of the contract: the caller's max_steps, 5 when none is supplied
RequestedLimit == IF max_steps = 0 THEN 5 ELSE max_steps

\* C8: the returned path has at most max_steps nodes, max_steps being the
\* limit the caller supplied and 5 when the caller supplied none.
C8_AtMostMaxSteps ==
    pc = "done" => Len(path_result.path_nodes) <= RequestedLimit

C10_TotalIsSumOfWeeks ==
    pc = "done" =>
        path_result.total_duration_weeks = SumWeeks(path_result.path_nodes)

\* a returned path of two or more nodes, one of them of zero weeks
C10_Witness ==
    /\ pc = "done"
    /\ Len(path_result.path_nodes) >= 2
    /\ path_result.total_duration_weeks > 0
    /\ \E i \in 1..Len(path_result.path_nodes) :
          path_result.path_nodes[i].estimated_completion_weeks = 0

\* C11: every emitted node has estimated_completion_weeks =
\* floor(duration_hours / 10) of its course, an integer >= 0 that is 0 for a
\* course shorter than 10 hours, and prerequisites_met = true.
C11_WeeksAreFloorOfTenthOfHours ==
    \A i \in 1..Len(path_nodes) :
        LET hours == CourseOfNode(path_nodes[i]).duration_hours
            weeks == path_nodes[i].estimated_completion_weeks
        IN  /\ weeks >= 0
            /\ 10 * weeks <= hours
            /\ hours < 10 * (weeks + 1)
            /\ hours < 10 => weeks = 0
            /\ path_nodes[i].prerequisites_met = TRUE

\* a path with a course shorter than 10 hours and a course whose hours are
\* not a multiple of 10
C11_Witness ==
    /\ \E i \in 1..Len(path_nodes) :
          CourseOfNode(path_nodes[i]).duration_hours < 10
    /\ \E i \in 1..Len(path_nodes) :
          /\ CourseOfNode(path_nodes[i]).duration_hours > 10
          /\ CourseOfNode(path_nodes[i]).duration_hours % 10 # 0

\* the catalog rows a target level admits: all of them without a target
WithinTarget ==
    { i \in 1..Len(courses_df) :
        target_nsqf_level # "" =>
            courses_df[i].nsqf_level <= IntOf(target_nsqf_level) }

\* C12: the remaining set starts as exactly the catalog entries with
\* nsqf_level <= target_nsqf_level when a target is given and as the whole
\* catalog otherwise, so that no course of a higher level is ever emitted.
C12_RemainingStartsWithinTarget ==
    /\ (pc = "loop" /\ loop_i = 0) => Range(available_courses) = WithinTarget
    /\ pc \in {"loop", "done"} =>
          \A i \in 1..Len(path_nodes) :
              \E r \in WithinTarget : courses_df[r].id = path_nodes[i].course_id

\* a return under a target level that admits a row of exactly that level and
\* excludes a row without prerequisites of a higher level
C12_Witness ==
    /\ pc = "done"
    /\ target_nsqf_level # ""
    /\ \E i \in 1..Len(path_nodes) :
          CourseOfNode(path_nodes[i]).nsqf_level = IntOf(target_nsqf_level)
    /\ \E r \in 1..Len(courses_df) :
          /\ courses_df[r].nsqf_level > IntOf(target_nsqf_level)
          /\ courses_df[r].prerequisites = <<>>

C3_SortedWithAscendingIdTies ==
    rpc = "done" =>
        \A i, j \in 1..Len(recommendations) :
            i < j =>
                \/ recommendations[i].relevance_score
                      > recommendations[j].relevance_score
                \/ /\ recommendations[i].relevance_score
                         = recommendations[j].relevance_score
                   /\ recommendations[i].course_id < recommendations[j].course_id

\* C4: at most top_k items are returned, and no returned item has an
\* nsqf_level or a sector other than the one of a given filter.
C4_AtMostTopKAndFiltered ==
    /\ Len(recommendations) <= top_k
    /\ \A i \in 1..Len(recommendations) :
          LET course == CourseWithId(recommendations[i].course_id)
          IN  /\ filters.nsqf_level # 0 => course.nsqf_level = filters.nsqf_level
              /\ filters.sector # "" => course.sector = filters.sector

\* a return of top_k items under a sector filter, from a catalog that holds a
\* row of another sector with a higher similarity than a returned one
C4_Witness ==
    /\ rpc = "done"
    /\ filters.sector # ""
    /\ Len(recommendations) = top_k
    /\ \E i \in 1..Len(courses_df) :
          /\ courses_df[i].sector # filters.sector
          /\ similarities[i] > recommendations[1].relevance_score

\* the rows of the catalog that no active filter excludes
Qualifying ==
    { i \in 1..Len(courses_df) :
        /\ filters.nsqf_level # 0 => courses_df[i].nsqf_level = filters.nsqf_level
        /\ filters.sector # "" => courses_df[i].sector = filters.sector }

\* C5: under active filters the call returns top_k items when the catalog
\* holds at least top_k qualifying rows, and all m qualifying rows when it
\* holds only m < top_k, whatever the similarity of the other rows.
C5_TopKQualifyingReturned ==
    (rpc = "done" /\ (filters.nsqf_level # 0 \/ filters.sector # "")) =>
        Len(recommendations) = Min(top_k, Cardinality(Qualifying))

\* C6: every returned item has 0 <= relevance_score <= 1.
C6_ScoreInUnitInterval ==
    \A i \in 1..Len(recommendations) :
        /\ 0 <= recommendations[i].relevance_score
        /\ recommendations[i].relevance_score <= SimScale

\* C13: on an empty catalog, or with an absent or empty embedding table, the
\* call returns an empty sequence and does not raise.
C13_EmptyCatalogReturnsEmpty ==
    (~loaded \/ courses_df = <<>> \/ course_embeddings = <<>>) =>
        /\ rpc # "raised"
        /\ recommendations = <<>>

\* C18: the explanation of an item starts with the tier text of its score
\* ("Highly aligned" above 0.8, "Good match" above 0.6 and up to 0.8,
\* "Relevant" up to 0.6) and continues with the first min(3, n) covered skills
\* of the course, in order, when it has n >= 1 of them, and with nothing
\* otherwise.
C18_ExplanationTierAndSkills ==
    \A i \in 1..Len(recommendations) :
        LET text == recommendations[i].explanation
            score == recommendations[i].relevance_score
            skills == CourseWithId(recommendations[i].course_id).skills_covered
            m == Min(3, Len(skills))
        IN  /\ score * 10 > 8 * SimScale
                  => text[1] = "Highly aligned with your profile"
            /\ (score * 10 > 6 * SimScale /\ score * 10 <= 8 * SimScale)
                  => text[1] = "Good match for your skills and interests"
            /\ score * 10 <= 6 * SimScale
                  => text[1] = "Relevant to your career goals"
            /\ skills = <<>> => Len(text) = 1
            /\ skills # <<>> =>
                  /\ Len(text) = 2 + 2 * m
                  /\ text[2] = ". "
                  /\ text[3] = "Covers: "
                  /\ \A j \in 1..m : text[2 + 2 * j] = skills[j]
                  /\ \A j \in 1..(m - 1) : text[3 + 2 * j] = ", "

\* a result with an item of score exactly 0.8 and an item whose course
\* covers more than three skills
C18_Witness ==
    /\ rpc = "done"
    /\ \E i \in 1..Len(recommendations) :
          recommendations[i].relevance_score * 10 = 8 * SimScale
    /\ \E i \in 1..Len(recommendations) :
          Len(CourseWithId(recommendations[i].course_id).skills_covered) > 3

\* the values of the NSQFLevel enumeration; 0 is the absent filter
ValidFilterLevels == 0..Len(LevelStrings)

\* C20: a filter value that is no known enum value is rejected before any
\* catalog entry is scanned; the call never returns a result for it.
C20_InvalidFilterRejected ==
    filters.nsqf_level \notin ValidFilterLevels =>
        /\ rpc \notin {"scan", "done"}
        /\ scan_pos = 1

\* ---------------------------------------------- properties of the embedder

\* the parts of the profile text that are not empty, in their order
NonEmptyParts(ld) ==
    LET NonEmpty(part) == part # <<>>
    IN  SelectSeq(ProfileParts(ld), NonEmpty)

\* C19: the text is the space-joined concatenation of skills, aspirations,
\* interests, education level and occupation in that order, and an empty
\* field leaves nothing behind: the text equals the text built from the
\* non-empty fields alone.
C19_EmptyFieldsContributeNothing ==
    epc = "done" =>
        profile_text = JoinStrings(NonEmptyParts(learner_data), <<" ">>)

\* -------------------------------------- properties of the recommend operation

FailedCall == call_outcome \in {"connect_error", "timeout", "error_status"}

HasFallbackSuffix(version) ==
    version # <<>> /\ version[Len(version)] = "-fallback"

ActiveInDb(id) ==
    \E r \in 1..Len(db_courses) : db_courses[r].id = id /\ db_courses[r].is_active

\* C15: whenever the backend's call to the ML service fails (connection error,
\* timeout or error status) the request is answered with a response, not an
\* error, of at most top_k courses, all of them active, each with
\* relevance_score exactly 0.75 and a model_version ending in "-fallback"; a
\* response built from a successful call never carries the suffix.
C15_FailedCallGivesFallback ==
    /\ (bpc = "done" /\ FailedCall) =>
          /\ response.status = 200
          /\ Len(response.recommendations) <= req_top_k
          /\ \A i \in 1..Len(response.recommendations) :
                /\ ActiveInDb(response.recommendations[i].course_id)
                /\ response.recommendations[i].relevance_score.num * 4
                      = 3 * response.recommendations[i].relevance_score.den
          /\ HasFallbackSuffix(response.model_version)
    /\ (bpc = "done" /\ call_outcome = "ok") =>
          ~HasFallbackSuffix(response.model_version)

\* a failed call answered from a table that holds an inactive course before
\* the returned one and more active courses than top_k
C15_Witness ==
    /\ bpc = "done"
    /\ FailedCall
    /\ response.recommendations # <<>>
    /\ \E r \in 1..Len(db_courses) :
          /\ ~db_courses[r].is_active
          /\ db_courses[r].id < response.recommendations[1].course_id
    /\ Cardinality({r \in 1..Len(db_courses) : db_courses[r].is_active}) > req_top_k

\* C16: a request makes the ML call at most once, and a completed request
\* carries the ranked result when the call succeeded and the fallback result
\* when it failed, never an error.
C16_OneAttemptAndRankedOrFallback ==
    /\ ml_attempts <= 1
    /\ bpc = "done" =>
          /\ response.status = 200
          /\ FailedCall <=> HasFallbackSuffix(response.model_version)

\* C17: with include_explanations = false no returned item has an explanation,
\* in the engine's result, in the backend's response built from it and in the
\* backend's fallback response; with include_explanations = true every item of
\* the engine's result carries an explanation.
C17_ExplanationsFollowTheFlag ==
    /\ (mpc = "responded" /\ ml_response.status = 200) =>
          \A i \in 1..Len(ml_response.recommendations) :
             IF include_explanations
             THEN /\ "explanation" \in DOMAIN ml_response.recommendations[i]
                  /\ ml_response.recommendations[i].explanation # <<>>
             ELSE "explanation" \notin DOMAIN ml_response.recommendations[i]
    /\ (bpc = "done" /\ ~include_explanations) =>
          \A i \in 1..Len(response.recommendations) :
             response.recommendations[i].explanation = {}

\* a request without explanations answered from a successful call with items
C17_Witness ==
    /\ bpc = "done"
    /\ ~include_explanations
    /\ call_outcome = "ok"
    /\ response.status = 200
    /\ response.recommendations # <<>>

\* --------------------------- the path as a function of the call's arguments

\* the for loop of lines 156-181 run to its end: n iterations are left
RECURSIVE ExpectedLoop(_, _, _, _, _, _)
ExpectedLoop(df, avail, skills, nodes, weeks, n) ==
    LET Met(idx) == Range(df[idx].prerequisites) \subseteq skills
        eligible == SelectSeq(avail, Met)
    IN  IF n = 0 \/ eligible = <<>>
        THEN [path_nodes |-> nodes, total_duration_weeks |-> weeks]
        ELSE LET first == eligible[1]
                 Other(idx) == idx # first
             IN  ExpectedLoop(df,
                              SelectSeq(avail, Other),
                              skills \cup Range(df[first].skills_covered),
                              Append(nodes,
                                     [course_id |-> df[first].id,
                                      sequence_order |-> Len(nodes) + 1,
                                      estimated_completion_weeks |->
                                          df[first].duration_hours \div 10,
                                      prerequisites_met |-> TRUE]),
                              weeks + df[first].duration_hours \div 10,
                              n - 1)

\* what generate_learning_path returns for a catalog, the learner's skills
\* and a target level; career_goal is no argument of it
ExpectedPath(isLoaded, df, skills, target) ==
    LET all == [i \in 1..Len(df) |-> i]
        Within(i) == df[i].nsqf_level <= IntOf(target)
        avail == IF target # "" THEN SelectSeq(all, Within) ELSE all
        out == IF isLoaded
               THEN ExpectedLoop(df, avail, Range(skills), <<>>, 0,
                                 Min(5, Len(avail)))
               ELSE [path_nodes |-> <<>>, total_duration_weeks |-> 0]
    IN  [path_nodes |-> out.path_nodes,
         total_duration_weeks |-> out.total_duration_weeks,
         target_nsqf_level |-> IF target # "" THEN target ELSE "5"]

\* C21: the result of generate_learning_path does not depend on career_goal:
\* path_nodes, total_duration_weeks and target_nsqf_level of the returned dict
\* are a function of the learner's skills, the catalog and target_nsqf_level
\* alone, so calls that differ only in career_goal return the same.
C21_ResultIndependentOfCareerGoal ==
    pc = "done" =>
        path_result = ExpectedPath(loaded, courses_df, prior_skills,
                                   target_nsqf_level)

\* a call for the second goal that returned a path of several nodes picked
\* among several eligible courses
C21_Witness ==
    /\ pc = "done"
    /\ career_goal = "Web Developer"
    /\ Len(path_result.path_nodes) >= 2
    /\ \E i, j \in 1..Len(courses_df) :
          /\ i < j
          /\ courses_df[i].prerequisites = <<>>
          /\ courses_df[j].prerequisites = <<>>

\* ------------------------------ properties of two calls on a shared engine

\* what content_based_recommendations returns once argsort has ordered the
\* candidates: the first k candidates that pass the filters, each with the
\* similarity of its own row
ExpectedRecommendations(df, embeddings, u, candidates, k, f) ==
    LET Pass(idx) ==
            /\ ~(f.nsqf_level # 0 /\ df[idx].nsqf_level # f.nsqf_level)
            /\ ~(f.sector # "" /\ df[idx].sector # f.sector)
        kept == SubSeq(SelectSeq(candidates, Pass), 1,
                       Min(k, Len(SelectSeq(candidates, Pass))))
    IN  [i \in 1..Len(kept) |->
            [course_id |-> df[kept[i]].id,
             relevance_score |-> CosineSimilarity(u, embeddings[kept[i]])]]

IdAndScore(recs) ==
    [i \in 1..Len(recs) |-> [course_id |-> recs[i].course_id,
                             relevance_score |-> recs[i].relevance_score]]

\* the candidates are the top_k * 2 best of an ascending order of the
\* similarities of the catalog
CandidatesOfCatalog ==
    \E order \in ArgSorts(Similarities(learner_embedding, course_embeddings)) :
        top_indices = SubSeq(Reverse(order), 1, Min(2 * top_k, Len(order)))

\* no step of either call changes the catalog, the embedding table or the
\* profile of a caller
CallsLeaveSharedStateAlone ==
    /\ loaded' = loaded
    /\ courses_df' = courses_df
    /\ course_embeddings' = course_embeddings
    /\ prior_skills' = prior_skills
    /\ learner_embedding' = learner_embedding

\* C22: ranking and path building leave the shared catalog, its embedding
\* table and the callers' profiles unchanged, and under every interleaving of
\* a recommend and a learning-path request on one engine each request returns
\* what it returns when run alone.
C22_ConcurrentCallsAreIndependent ==
    /\ [][CallsLeaveSharedStateAlone]_vars
    /\ [](pc = "done" =>
            path_result = ExpectedPath(loaded, courses_df, prior_skills,
                                       target_nsqf_level))
    /\ [](rpc = "scan" => CandidatesOfCatalog)
    /\ [](rpc = "done" /\ loaded =>
            /\ CandidatesOfCatalog
            /\ IdAndScore(recommendations) =
                 ExpectedRecommendations(courses_df, course_embeddings,
                                         learner_embedding, top_indices, top_k,
                                         filters))

\* both calls are in the middle of their loops, each having emitted an item
C22_Witness ==
    /\ pc = "loop"
    /\ Len(path_nodes) >= 1
    /\ loop_i < loop_n
    /\ rpc = "scan"
    /\ Len(recommendations) >= 1
    /\ scan_pos <= Len(top_indices)

\* ------------------------------------------------- the two-course scenario

\* course 1 without prerequisites covers A in 40 hours, course 2 requires A
\* and covers B in 20 hours; the two rows in either order
TwoCourseCatalog ==
    /\ loaded
    /\ Len(courses_df) = 2
    /\ \E a, b \in 1..2 :
          /\ a # b
          /\ courses_df[a].id = 1
          /\ courses_df[a].prerequisites = <<>>
          /\ courses_df[a].skills_covered = <<"A">>
          /\ courses_df[a].duration_hours = 40
          /\ courses_df[b].id = 2
          /\ courses_df[b].prerequisites = <<"A">>
          /\ courses_df[b].skills_covered = <<"B">>
          /\ courses_df[b].duration_hours = 20

\* C23: for the catalog of course 1 (no prerequisites, covers A, 40 hours)
\* and course 2 (requires A, covers B, 20 hours) and a learner without skills
\* the path is course 1 with sequence_order 1 and 4 weeks, then course 2 with
\* sequence_order 2 and 2 weeks, 6 weeks in total, whichever of the two rows
\* the catalog lists first.
C23_TwoCourseScenario ==
    (pc = "done" /\ TwoCourseCatalog /\ prior_skills = <<>>) =>
        /\ Len(path_result.path_nodes) = 2
        /\ path_result.path_nodes[1].course_id = 1
        /\ path_result.path_nodes[1].sequence_order = 1
        /\ path_result.path_nodes[1].estimated_completion_weeks = 4
        /\ path_result.path_nodes[2].course_id = 2
        /\ path_result.path_nodes[2].sequence_order = 2
        /\ path_result.path_nodes[2].estimated_completion_weeks = 2
        /\ path_result.total_duration_weeks = 6

\* the call returned for the catalog that lists course 2 first
C23_Witness ==
    /\ pc = "done"
    /\ TwoCourseCatalog
    /\ prior_skills = <<>>
    /\ courses_df[1].id = 2
    /\ Len(path_result.path_nodes) = 2

\* ------------------------------------------- the sector filter scenario

\* the catalog row it is the only IT course of four, and the three others
\* are all more similar to the learner
OneITCourseBelowThreeOthers(it) ==
    /\ loaded
    /\ Len(courses_df) = 4
    /\ it \in 1..4
    /\ courses_df[it].sector = "IT"
    /\ \A j \in 1..4 :
          j # it =>
             /\ courses_df[j].sector # "IT"
             /\ CosineSimilarity(learner_embedding, course_embeddings[j])
                   > CosineSimilarity(learner_embedding, course_embeddings[it])

\* C24: with top_k = 2 and the filter sector = "IT", on a catalog of one IT
\* course and three other courses that are all more similar than it, the
\* result is exactly the IT course.
C24_SectorFilterScenario ==
    \A it \in 1..4 :
        (/\ rpc = "done"
         /\ top_k = 2
         /\ filters.sector = "IT"
         /\ filters.nsqf_level = 0
         /\ OneITCourseBelowThreeOthers(it)) =>
            /\ Len(recommendations) = 1
            /\ recommendations[1].course_id = courses_df[it].id

\* the scenario's call has returned
C24_Witness ==
    /\ rpc = "done"
    /\ top_k = 2
    /\ filters.sector = "IT"
    /\ filters.nsqf_level = 0
    /\ \E it \in 1..4 : OneITCourseBelowThreeOthers(it)

\* ------------------------------------------------ properties of registration

\* C25: a registration request for an email that is already registered is
\* answered with 400 and adds no user; whatever the order of the requests'
\* steps, no two users share an email and every request that added no user
\* got the 400 response.
C25_DuplicateEmailGets400 ==
    /\ \A i, j \in 1..Len(users) : users[i].email = users[j].email => i = j
    /\ \A r \in 1..Len(reg_requests) :
          reg_requests[r].pc = "done" => reg_requests[r].status \in {201, 400}
    /\ Cardinality({r \in 1..Len(reg_requests) : reg_requests[r].status = 201})
          <= Len(users)

\* -------------------------------------------- properties of progress updates

\* C29: whatever the order of the steps of update_progress requests, the
\* table holds at most one progress record per pair of learner and course: a
\* request for a pair with a record updates it in place, a request for a new
\* pair creates one record, also when two requests for one new pair overlap.
C29_OneRecordPerLearnerAndCourse ==
    \A i, j \in 1..Len(progress_records) :
        (/\ progress_records[i].learner_id = progress_records[j].learner_id
         /\ progress_records[i].course_id = progress_records[j].course_id)
            => i = j

\* ------------------------------------------- the loop state of the path builder

\* the index labels that passed the level filter and whose course is not in
\* the path, in catalog order
RemainingWithoutEmitted ==
    LET all == [i \in 1..Len(courses_df) |-> i]
        Keep(i) ==
            /\ target_nsqf_level # "" =>
                  courses_df[i].nsqf_level <= IntOf(target_nsqf_level)
            /\ \A n \in 1..Len(path_nodes) :
                  path_nodes[n].course_id # courses_df[i].id
    IN  SelectSeq(all, Keep)

LoopStateMatchesPath ==
    (pc = "loop" \/ (pc = "done" /\ loaded)) =>
        /\ current_skills =
              Range(prior_skills) \cup
              UNION { Range(CourseWithId(path_nodes[n].course_id).skills_covered) :
                        n \in 1..Len(path_nodes) }
        /\ available_courses = RemainingWithoutEmitted
        /\ sequence_order = Len(path_nodes) + 1

\* C26: after every step of generate_learning_path, current_skills is the
\* learner's prior skills united with the skills_covered of the courses
\* emitted so far and never loses a skill, available_courses is the initial
\* selection without the emitted courses, and sequence_order is the number
\* of emitted nodes plus 1.
C26_LoopStateFollowsEmittedNodes ==
    /\ [](LoopStateMatchesPath)
    /\ [][current_skills \subseteq current_skills']_vars

\* two courses are emitted, the second added a skill, and courses remain
C26_Witness ==
    /\ pc = "loop"
    /\ Len(path_nodes) = 2
    /\ available_courses # <<>>
    /\ Len(available_courses) < Len(courses_df) - 2
    /\ ~(Range(CourseWithId(path_nodes[2].course_id).skills_covered)
            \subseteq Range(prior_skills) \cup
                      Range(CourseWithId(path_nodes[1].course_id).skills_covered))

\* ------------------------------------------------------------- determinism

\* " ".join of the five parts of the profile, written out
ExpectedProfileText(ld) ==
    JoinTokens(ld.prior_skills, " ") \o <<" ">> \o
    JoinTokens(ld.career_aspirations, " ") \o <<" ">> \o
    JoinTokens(ld.interests, " ") \o <<" ">> \o
    ld.education_level \o <<" ">> \o ld.current_occupation

C28_ResponseOrderDenseAndTotalIsSum ==
    bpc = "done" =>
        /\ \A i \in 1..Len(response.path_nodes) :
              response.path_nodes[i].sequence_order = i
        /\ response.total_duration_weeks = SumWeeks(response.path_nodes)

\* ------------------------------------------- the ranking without filters

\* the catalog rows the returned items stand for, by course_id
RowOfItem(rec) ==
    CHOOSE i \in 1..Len(courses_df) : courses_df[i].id = rec.course_id

UnfilteredResultIsTopK ==
    LET n == IF loaded THEN Len(courses_df) ELSE 0
        returned == { recommendations[r].course_id : r \in 1..Len(recommendations) }
    IN  /\ Len(recommendations) = Min(top_k, n)
        /\ \A a, b \in 1..Len(recommendations) :
              recommendations[a].course_id = recommendations[b].course_id => a = b
        /\ \A r \in 1..Len(recommendations) :
              /\ \E i \in 1..Len(courses_df) :
                    courses_df[i].id = recommendations[r].course_id
              /\ recommendations[r].relevance_score =
                    CosineSimilarity(learner_embedding,
                                     course_embeddings[RowOfItem(recommendations[r])])
        /\ \A i \in 1..n :
              courses_df[i].id \notin returned =>
                 \A r \in 1..Len(recommendations) :
                    CosineSimilarity(learner_embedding, course_embeddings[i])
                       <= recommendations[r].relevance_score

\* C30: without filters a call on a catalog of N entries returns exactly
\* min(top_k, N) items with distinct course_ids, each with the similarity of
\* its own catalog entry, and no entry left out is more similar than a
\* returned one.
C30_UnfilteredReturnsTopK ==
    (filters = NoFilters /\ rpc \in {"done", "raised"}) =>
        /\ rpc = "done"
        /\ UnfilteredResultIsTopK

================================================================
